---------------------------- MODULE Spec2Model ----------------------------
(***************************************************************************)
(* A model of vue-type-check's orchestration layer (src/src/index.ts):     *)
(* check -> traverse (select, exclude, read, classify) -> getDiagnostics   *)
(* (construct producers, validate each document, report, clean up, exit).  *)
(*                                                                         *)
(* Strings are sequences of one-character strings, so that path.resolve,   *)
(* Array.join and the RegExp built from the exclusion directories are      *)
(* modelled by what they do to the characters.  A component's source text  *)
(* is a sequence of lexemes (the substrings the three classifier regular   *)
(* expressions look for, other text, and the line terminator).             *)
(***************************************************************************)
EXTENDS Integers, Sequences, FiniteSets, TLC

VARIABLES
    validLanguages,   \* index.ts:37  module-wide extension list
    pc,               \* position of the process
    options,          \* the Options of the running check invocation
    targetFiles,      \* traverse: targetFiles after selection and exclusion
    reads,            \* traverse: state of each readFile promise
    arrival,          \* indexes of the reads of the running traverse, in the
                      \* order they were fulfilled
    readLog,          \* paths handed to readFile, in call order
    classifierLog,    \* paths whose source was given to the classifier
    docs,             \* the TextDocuments traverse returned
    caches,           \* documentRegions / scriptRegionDocuments lifecycle
    disposeCount,     \* number of dispose() calls per cache
    hasDoValidation,  \* whether scriptMode exposes doValidation
    hasError,         \* getDiagnostics: hasError
    totalErrors,      \* getDiagnostics: totalErrors
    idx,              \* number of documents the for-loop has finished
    calls,            \* producer invocations <<document index, producer>>
    trace,            \* externally visible effects, in order
    caught,           \* the catch block of getDiagnostics ran
    failure,          \* an unguarded failure of this process ("none" if none)
    exitCode,         \* process exit code, -1 while the process runs
    runs,             \* check invocations started in this process
    probe             \* input/output of a pure function under test

vars == <<validLanguages, pc, options, targetFiles, reads, arrival, readLog,
          classifierLog, docs, caches, disposeCount, hasDoValidation,
          hasError, totalErrors, idx, calls, trace, caught, failure,
          exitCode, runs, probe>>

-----------------------------------------------------------------------------
(* Bounds of the model *)

\* check invocations in one process
MaxRuns == 2
\* diagnostics one producer returns for one document
MaxDiag == 1
\* characters of an exclusion directory given alone (SpecExclude)
MaxDirLen == 4
\* characters of each of two exclusion directories given together
MaxPairLen == 1
\* characters of a candidate path (SpecExclude)
MaxPathLen == 4
\* lexemes of a source text (SpecClassify)
MaxSrcLen == 5

-----------------------------------------------------------------------------
(* Strings *)

\* the characters SpecExclude draws paths from: a separator, a
\* letter, and two characters that are special in a regular expression
Sigma == {"/", "a", ".", "+"}

RECURSIVE StrUpTo(_, _)
StrUpTo(S, n) ==
    IF n = 0 THEN {<<>>}
    ELSE LET shorter == StrUpTo(S, n - 1)
         IN shorter \cup {Append(s, c) : s \in {t \in shorter : Len(t) = n - 1}, c \in S}

\* Array.prototype.join
RECURSIVE Join(_, _)
Join(ss, sep) ==
    IF ss = <<>> THEN <<>>
    ELSE IF Len(ss) = 1 THEN ss[1]
    ELSE ss[1] \o sep \o Join(Tail(ss), sep)

\* the pieces of s between occurrences of character c
RECURSIVE Split(_, _)
Split(s, c) ==
    IF \A i \in 1..Len(s) : s[i] # c THEN <<s>>
    ELSE LET k == CHOOSE i \in 1..Len(s) : s[i] = c /\ \A j \in 1..(i - 1) : s[j] # c
         IN <<SubSeq(s, 1, k - 1)>> \o Split(SubSeq(s, k + 1, Len(s)), c)

IsPrefix(p, s) == Len(p) <= Len(s) /\ SubSeq(s, 1, Len(p)) = p

IsPrefixSeq(p, s) == Len(p) <= Len(s) /\ \A i \in 1..Len(p) : p[i] = s[i]

\* the order-preserving sub-sequence of s whose elements are in set K
RECURSIVE Restrict(_, _)
Restrict(s, K) ==
    IF s = <<>> THEN <<>>
    ELSE (IF Head(s) \in K THEN <<Head(s)>> ELSE <<>>) \o Restrict(Tail(s), K)

Range(s) == {s[i] : i \in 1..Len(s)}

-----------------------------------------------------------------------------
(* path.resolve, as index.ts:65 uses it *)

\* the working directory of the process
Cwd == <<"/", "w">>

RECURSIVE NormalizeSegments(_, _)
NormalizeSegments(segs, acc) ==
    IF segs = <<>> THEN acc
    ELSE LET s == Head(segs)
         IN IF s = <<>> \/ s = <<".">> THEN NormalizeSegments(Tail(segs), acc)
            ELSE IF s = <<".", ".">>
                 THEN NormalizeSegments(Tail(segs),
                          IF acc = <<>> THEN acc ELSE SubSeq(acc, 1, Len(acc) - 1))
            ELSE NormalizeSegments(Tail(segs), Append(acc, s))

RECURSIVE Rooted(_)
Rooted(segs) ==
    IF segs = <<>> THEN <<>> ELSE <<"/">> \o Head(segs) \o Rooted(Tail(segs))

\* path.resolve(dir): absolute (relative to the working directory), with
\* ".", ".." and empty segments resolved and no trailing separator
PathResolve(dir) ==
    LET abs  == IF dir # <<>> /\ dir[1] = "/" THEN dir ELSE Cwd \o <<"/">> \o dir
        segs == NormalizeSegments(Split(abs, "/"), <<>>)
    IN IF segs = <<>> THEN <<"/">> ELSE Rooted(segs)

-----------------------------------------------------------------------------
(* new RegExp(`^(?:${filterTargets}).*$`).test(targetFile), index.ts:67.   *)
(* The pattern text is used unescaped.  Of the characters of the model,   *)
(* "|" separates alternatives, "." matches any character, "+" repeats the  *)
(* atom before it one or more times, every other character matches itself. *)

\* "Nothing to repeat": a "+" with no atom before it
AlternativeIsMalformed(alt) ==
    \E i \in 1..Len(alt) : alt[i] = "+" /\ (i = 1 \/ alt[i - 1] = "+")

RegExpThrows(pattern) ==
    LET alts == Split(pattern, "|")
    IN \E a \in 1..Len(alts) : AlternativeIsMalformed(alts[a])

AtomMatches(atom, ch) == atom = "." \/ atom = ch

\* the offsets of t at which a match of alt[i..], begun at an offset in S, ends
RECURSIVE RegexEnds(_, _, _, _)
RegexEnds(alt, t, i, S) ==
    IF i > Len(alt) THEN S
    ELSE IF i < Len(alt) /\ alt[i + 1] = "+"
    THEN RegexEnds(alt, t, i + 2,
             {q \in 1..Len(t) : \E p \in S :
                 p < q /\ \A k \in (p + 1)..q : AtomMatches(alt[i], t[k])})
    ELSE RegexEnds(alt, t, i + 1,
             {p + 1 : p \in {r \in S : r < Len(t) /\ AtomMatches(alt[i], t[r + 1])}})

\* ^(?:pattern).*$ : some alternative matches at the start of t (the strings
\* of the model hold no line terminator, so ".*$" takes the rest)
RegExpTest(pattern, t) ==
    LET alts == Split(pattern, "|")
    IN \E a \in 1..Len(alts) : RegexEnds(alts[a], t, 1, {0}) # {}

-----------------------------------------------------------------------------
(* Exclusion: index.ts:45 and index.ts:64-69 *)

NoDir == [kind |-> "undefined", v |-> <<>>]
DirString(d) == [kind |-> "string", v |-> d]
DirArray(ds) == [kind |-> "array", v |-> ds]

\* index.ts:45  typeof excludeDir === "string" ? [excludeDir] : excludeDir
ExcludeDirsOf(excludeDir) ==
    IF excludeDir.kind = "string" THEN DirArray(<<excludeDir.v>>) ELSE excludeDir

ResolveAll(dirs) == [i \in 1..Len(dirs) |-> PathResolve(dirs[i])]

\* index.ts:65
FilterTargets(excludeDirs) == Join(ResolveAll(excludeDirs.v), <<"|">>)

\* the RegExp is constructed inside the filter callback: with no candidate
\* it is never constructed
ExcludeThrows(files, excludeDirs) ==
    /\ excludeDirs.kind # "undefined"
    /\ files # <<>>
    /\ RegExpThrows(FilterTargets(excludeDirs))

IsExcluded(file, excludeDirs) ==
    /\ excludeDirs.kind # "undefined"
    /\ RegExpTest(FilterTargets(excludeDirs), file)

MutExclude(files, excludeDirs) == files
Exclude(files, excludeDirs) ==
    IF excludeDirs.kind = "undefined" THEN files
    ELSE Restrict(files, {f \in Range(files) : ~IsExcluded(f, excludeDirs)})

-----------------------------------------------------------------------------
(* The classifier: index.ts:82-89 and index.ts:180-190.  A source text is  *)
(* a sequence of lexemes; NL is the line terminator, which "." in a        *)
(* regular expression does not match.                                      *)

NL == "\n"
Lexemes == {"<script", ">", "lang=ts", "lang=tsx", "src=q", "x", NL}

VUE == <<"v", "u", "e">>
TS == <<"t", "s">>
TSX == <<"t", "s", "x">>

\* /.*\<script.*M.*\>/ with M one of the lexemes `middle`: "<script", then
\* a lexeme of `middle`, then ">", all on one line
TagLineWith(src, middle) ==
    \E i, k, j \in 1..Len(src) :
        /\ i < k /\ k < j
        /\ src[i] = "<script" /\ src[k] \in middle /\ src[j] = ">"
        /\ \A m \in i..j : src[m] # NL

\* index.ts:180-182   /.*\<script.*\>/
hasScriptTag(src) ==
    \E i, j \in 1..Len(src) :
        /\ i < j
        /\ src[i] = "<script" /\ src[j] = ">"
        /\ \A m \in i..j : src[m] # NL

\* index.ts:184-186   /.*\<script.*lang="tsx?".*\>/
MutIsTs(src) == TagLineWith(src, {"lang=ts"})
isTs(src) == TagLineWith(src, {"lang=ts", "lang=tsx"})

\* index.ts:188-190   /.*\<script.*src=".*".*\>/
isImportOtherTs(src) == TagLineWith(src, {"src=q"})

\* index.ts:83-88  the filter callback
IsEligible(fileExt, src) ==
    IF fileExt # VUE \/ ~hasScriptTag(src) THEN TRUE
    ELSE isTs(src) \/ isImportOtherTs(src)

-----------------------------------------------------------------------------
(* The file system the process runs on *)

FA == <<"/", "w", "/", "a", ".", "v", "u", "e">>
FB == <<"/", "w", "/", "b", ".", "v", "u", "e">>
FC == <<"/", "w", "/", "c", ".", "t", "s">>
FD == <<"/", "w", "/", "d", "/", "e", ".", "v", "u", "e">>
\* named on the command line, not on disk
FX == <<"/", "w", "/", "x", ".", "v", "u", "e">>

\* the files on disk, in the order a scan returns them
Disk == <<FA, FB, FC, FD>>

Workspace == <<"/", "w">>
SubDir == <<"/", "w", "/", "d">>

Source(path) ==
    CASE path = FA -> <<"<script", "lang=ts", ">", NL, "x">>
      [] path = FB -> <<"<script", ">", NL, "x">>
      [] path = FC -> <<"x">>
      [] OTHER -> <<"x", NL>>

\* file-util's readFile succeeds on a file of the disk
Readable(path) == path \in Range(Disk)

\* file-util's extractTargetFileExtension: the text after the last "."
extractTargetFileExtension(path) ==
    LET dots == {i \in 1..Len(path) : path[i] = "."}
    IN IF dots = {} THEN <<>>
       ELSE SubSeq(path, (CHOOSE i \in dots : \A j \in dots : j <= i) + 1, Len(path))

\* file-util's globSync on path.join(root, "**/*.{exts}"): the files of the
\* disk under root whose extension is one of exts
globSync(root, exts) ==
    Restrict(Disk, {f \in Range(Disk) :
        /\ IsPrefix(root \o <<"/">>, f)
        /\ extractTargetFileExtension(f) \in Range(exts)})

\* index.ts:60  the extensions of the scan pattern
MutScanExtensions(onlyTypeScript, langs) == langs
ScanExtensions(onlyTypeScript, langs) ==
    IF onlyTypeScript THEN langs ELSE <<VUE>>

\* index.ts:57-62
MutSelect(root, onlyTypeScript, changedFiles, langs) ==
    changedFiles \o globSync(root, ScanExtensions(onlyTypeScript, langs))
Select(root, onlyTypeScript, changedFiles, langs) ==
    IF Len(changedFiles) # 0 THEN changedFiles
    ELSE globSync(root, ScanExtensions(onlyTypeScript, langs))

\* index.ts:91-93
CreateDocument(path) ==
    [uri |-> <<"file://">> \o path,
     languageId |-> extractTargetFileExtension(path),
     version |-> 0,
     text |-> Source(path)]

DocPath(doc) == Tail(doc.uri)

-----------------------------------------------------------------------------
(* The invocations the model draws *)

ExcludeChoices ==
    { NoDir,
      DirArray(<<>>),
      DirString(<<"d">>),
      DirString(<<"/", "w", "/", "a">>),
      DirArray(<< FB, <<"d", "/">> >>),
      DirString(<<"+", "+">>) }

FileChoices == { <<>>, <<FB, FA>>, <<FA, FX>>, <<FD, FC>> }

OptionChoices ==
    [ workspace : {Workspace},
      srcDir : {<<>>, SubDir},
      onlyTemplate : BOOLEAN,
      onlyTypeScript : BOOLEAN,
      excludeDir : ExcludeChoices,
      failExit : BOOLEAN,
      files : FileChoices ]

NoOptions ==
    [ workspace |-> Workspace, srcDir |-> <<>>, onlyTemplate |-> FALSE,
      onlyTypeScript |-> FALSE, excludeDir |-> NoDir, failExit |-> FALSE,
      files |-> <<>> ]

NoCaches == [documentRegions |-> "none", scriptRegionDocuments |-> "none"]
NoDisposals == [documentRegions |-> 0, scriptRegionDocuments |-> 0]

-----------------------------------------------------------------------------
(* State machine *)

MainVars == <<validLanguages, pc, options, targetFiles, reads, arrival, readLog,
              classifierLog, docs, caches, disposeCount, hasDoValidation,
              hasError, totalErrors, idx, calls, trace, caught, failure,
              exitCode, runs>>

MainInit ==
    /\ validLanguages = <<VUE>>
    /\ pc = "idle"
    /\ options = NoOptions
    /\ targetFiles = <<>>
    /\ reads = <<>>
    /\ arrival = <<>>
    /\ readLog = <<>>
    /\ classifierLog = <<>>
    /\ docs = <<>>
    /\ caches = NoCaches
    /\ disposeCount = NoDisposals
    /\ hasDoValidation = FALSE
    /\ hasError = FALSE
    /\ totalErrors = 0
    /\ idx = 0
    /\ calls = <<>>
    /\ trace = <<>>
    /\ caught = FALSE
    /\ failure = "none"
    /\ exitCode = -1
    /\ runs = 0

Init == MainInit /\ probe = [kind |-> "none"]

\* index.ts:39-46 and 57-80: check up to the await of Promise.all in traverse
Check(o) ==
    /\ pc = "idle"
    /\ runs < MaxRuns
    /\ runs' = runs + 1
    /\ options' = o
    /\ validLanguages' = IF o.onlyTypeScript THEN <<TS, TSX, VUE>> ELSE validLanguages
    /\ LET srcDir == IF o.srcDir # <<>> THEN o.srcDir ELSE o.workspace
           excludeDirs == ExcludeDirsOf(o.excludeDir)
           selected == Select(srcDir, o.onlyTypeScript, o.files, validLanguages')
       IN IF ExcludeThrows(selected, excludeDirs)
          THEN /\ pc' = "rejected"
               /\ failure' = "pattern"
               /\ targetFiles' = selected
               /\ reads' = <<>>
               /\ readLog' = <<>>
          ELSE /\ pc' = "reading"
               /\ failure' = "none"
               /\ targetFiles' = Exclude(selected, excludeDirs)
               /\ reads' = [i \in 1..Len(targetFiles') |-> "pending"]
               /\ readLog' = targetFiles'
    /\ arrival' = <<>>
    /\ classifierLog' = <<>>
    /\ docs' = <<>>
    /\ UNCHANGED <<caches, disposeCount, hasDoValidation, hasError, totalErrors,
                   idx, calls, trace, caught, exitCode, probe>>

\* index.ts:73  a readFile promise fulfils
ReadComplete(i) ==
    /\ pc = "reading"
    /\ i \in 1..Len(reads)
    /\ reads[i] = "pending"
    /\ Readable(targetFiles[i])
    /\ reads' = [reads EXCEPT ![i] = "done"]
    /\ arrival' = Append(arrival, i)
    /\ UNCHANGED <<validLanguages, pc, options, targetFiles, readLog,
                   classifierLog, docs, caches, disposeCount, hasDoValidation,
                   hasError, totalErrors, idx, calls, trace, caught, failure,
                   exitCode, runs, probe>>

\* (a variant that swallows the rejection and goes on)
MutReadFail(i) ==
    /\ pc = "reading"
    /\ i \in 1..Len(reads)
    /\ reads[i] = "pending"
    /\ ~Readable(targetFiles[i])
    /\ reads' = [reads EXCEPT ![i] = "done"]
    /\ failure' = "read"
    /\ UNCHANGED <<arrival, validLanguages, pc, options, targetFiles, readLog,
                   classifierLog, docs, caches, disposeCount, hasDoValidation,
                   hasError, totalErrors, idx, calls, trace, caught,
                   exitCode, runs, probe>>
\* index.ts:71-80  a readFile promise rejects: Promise.all, traverse and
\* check reject in turn, nothing catches
ReadFail(i) ==
    /\ pc = "reading"
    /\ i \in 1..Len(reads)
    /\ reads[i] = "pending"
    /\ ~Readable(targetFiles[i])
    /\ reads' = [reads EXCEPT ![i] = "failed"]
    /\ pc' = "rejected"
    /\ failure' = "read"
    /\ UNCHANGED <<arrival, validLanguages, options, targetFiles, readLog,
                   classifierLog, docs, caches, disposeCount, hasDoValidation,
                   hasError, totalErrors, idx, calls, trace, caught,
                   exitCode, runs, probe>>

\* index.ts:82-89  the strict-dialect filter
MutClassify(onlyTypeScript, paths) ==
    Restrict(paths, {f \in Range(paths) :
        IsEligible(extractTargetFileExtension(f), Source(f))})
Classify(onlyTypeScript, paths) ==
    IF onlyTypeScript
    THEN Restrict(paths, {f \in Range(paths) :
             IsEligible(extractTargetFileExtension(f), Source(f))})
    ELSE paths

\* index.ts:71-80  the array Promise.all resolves to: the result of the read
\* of paths[i] at index i, whatever the order the reads were fulfilled in
MutPromiseAllResults(paths, order) == [k \in 1..Len(order) |-> paths[order[k]]]
PromiseAllResults(paths, order) == paths

\* index.ts:82-95  every read is done: classify, create the documents
TraverseReturn ==
    /\ pc = "reading"
    /\ \A i \in 1..Len(reads) : reads[i] = "done"
    /\ LET kept == Classify(options.onlyTypeScript,
                            PromiseAllResults(targetFiles, arrival))
       IN docs' = [i \in 1..Len(kept) |-> CreateDocument(kept[i])]
    /\ classifierLog' = IF options.onlyTypeScript THEN targetFiles ELSE <<>>
    /\ pc' = "loaded"
    /\ UNCHANGED <<arrival, validLanguages, options, targetFiles, reads, readLog,
                   caches, disposeCount, hasDoValidation, hasError, totalErrors,
                   idx, calls, trace, caught, failure, exitCode, runs, probe>>

\* index.ts:99-107  getDiagnostics is entered: both caches are created
EnterGetDiagnostics ==
    /\ pc = "loaded"
    /\ caches' = [documentRegions |-> "live", scriptRegionDocuments |-> "live"]
    /\ disposeCount' = NoDisposals
    /\ hasError' = FALSE
    /\ totalErrors' = 0
    /\ idx' = 0
    /\ calls' = <<>>
    /\ caught' = FALSE
    /\ pc' = "constructing"
    /\ arrival' = <<>>
    /\ UNCHANGED <<validLanguages, options, targetFiles, reads, readLog,
                   classifierLog, docs, hasDoValidation, trace, failure,
                   exitCode, runs, probe>>

\* index.ts:167-169  the catch block
MutCatchBlock ==
    /\ hasError' = hasError
    /\ caught' = TRUE
    /\ trace' = Append(trace, [kind |-> "console.error"])
    /\ pc' = "finally"
MutCatchBlockExits ==
    /\ hasError' = TRUE
    /\ caught' = TRUE
    /\ trace' = Append(trace, [kind |-> "console.error"])
    /\ pc' = "exited"
CatchBlock ==
    /\ hasError' = TRUE
    /\ caught' = TRUE
    /\ trace' = Append(trace, [kind |-> "console.error"])
    /\ pc' = "finally"

\* index.ts:109-119  getServiceHost, new VueInterpolationMode or
\* getJavascriptMode throws
ConstructThrows ==
    /\ pc = "constructing"
    /\ CatchBlock
    /\ UNCHANGED <<arrival, validLanguages, options, targetFiles, reads, readLog,
                   classifierLog, docs, caches, disposeCount, hasDoValidation,
                   totalErrors, idx, calls, failure, exitCode, runs, probe>>

\* index.ts:109-124  the producers and the progress bar are constructed
ConstructDone(capable) ==
    /\ pc = "constructing"
    /\ hasDoValidation' = capable
    /\ pc' = "validating"
    /\ UNCHANGED <<arrival, validLanguages, options, targetFiles, reads, readLog,
                   classifierLog, docs, caches, disposeCount, hasError,
                   totalErrors, idx, calls, trace, caught, failure, exitCode,
                   runs, probe>>

\* the diagnostics a producer returns, in producer order
Diagnostics(producer, n) == [k \in 1..n |-> [producer |-> producer, n |-> k]]

\* index.ts:128
MutScriptIsValidated == ~options.onlyTemplate
ScriptIsValidated == ~options.onlyTemplate /\ hasDoValidation

\* index.ts:135-159  one report per diagnostic
Reports(d, results) ==
    [k \in 1..Len(results) |-> [kind |-> "report", doc |-> d, diag |-> results[k]]]

\* index.ts:162
MutEarlyStop(err) == err /\ ~options.failExit
MutEarlyStopAtEnd(err) == err /\ options.failExit /\ idx + 1 = Len(docs)
EarlyStop(err) == err /\ options.failExit

\* index.ts:131  vueTplResults.concat(scriptResults)
MutConcatResults(vueTplResults, scriptResults) == scriptResults \o vueTplResults
ConcatResults(vueTplResults, scriptResults) == vueTplResults \o scriptResults

\* index.ts:134  totalErrors += results.length
MutAddErrors(total, results) == Len(results)
AddErrors(total, results) == total + Len(results)

\* index.ts:132-165  what one iteration shows, in order: the reports, the
\* tick of the progress bar, the notice of an early stop
MutIterationEffects(d, results, err) ==
    (IF Len(results) # 0 THEN Reports(d, results) ELSE <<[kind |-> "tick"]>>)
    \o (IF EarlyStop(err) THEN <<[kind |-> "notice"]>> ELSE <<>>)
IterationEffects(d, results, err) ==
    Reports(d, results) \o <<[kind |-> "tick"]>>
    \o (IF EarlyStop(err) THEN <<[kind |-> "notice"]>> ELSE <<>>)

\* index.ts:125-166  one iteration of the loop
ValidateDocument(t, s) ==
    /\ pc = "validating"
    /\ idx < Len(docs)
    /\ ScriptIsValidated \/ s = 0
    /\ LET d == idx + 1
           vueTplResults == Diagnostics("template", t)
           scriptResults == IF ScriptIsValidated THEN Diagnostics("script", s) ELSE <<>>
           results == ConcatResults(vueTplResults, scriptResults)
           err == hasError \/ Len(results) # 0
       IN /\ calls' = calls \o <<<<d, "template">>>>
                      \o (IF ScriptIsValidated THEN <<<<d, "script">>>> ELSE <<>>)
          /\ hasError' = err
          /\ totalErrors' = IF Len(results) # 0 THEN AddErrors(totalErrors, results)
                            ELSE totalErrors
          /\ trace' = trace \o IterationEffects(d, results, err)
          /\ idx' = d
          /\ pc' = IF EarlyStop(err) THEN "finally" ELSE "validating"
    /\ UNCHANGED <<arrival, validLanguages, options, targetFiles, reads, readLog,
                   classifierLog, docs, caches, disposeCount, hasDoValidation,
                   caught, failure, exitCode, runs, probe>>

\* index.ts:126-130  a producer throws while validating a document
ValidateThrows(producer) ==
    /\ pc = "validating"
    /\ idx < Len(docs)
    /\ producer = "script" => ScriptIsValidated
    /\ calls' = calls \o <<<<idx + 1, "template">>>>
                \o (IF producer = "script" THEN <<<<idx + 1, "script">>>> ELSE <<>>)
    /\ CatchBlock
    /\ UNCHANGED <<arrival, validLanguages, options, targetFiles, reads, readLog,
                   classifierLog, docs, caches, disposeCount, hasDoValidation,
                   totalErrors, idx, failure, exitCode, runs, probe>>

\* index.ts:125  the documents are exhausted
LoopDone ==
    /\ pc = "validating"
    /\ idx = Len(docs)
    /\ pc' = "finally"
    /\ UNCHANGED <<arrival, validLanguages, options, targetFiles, reads, readLog,
                   classifierLog, docs, caches, disposeCount, hasDoValidation,
                   hasError, totalErrors, idx, calls, trace, caught, failure,
                   exitCode, runs, probe>>

\* index.ts:173-175
MutSummary == <<[kind |-> "summary", errors |-> totalErrors, files |-> Len(docs)]>>
MutSummaryCountsTargets ==
    IF ~options.failExit
    THEN <<[kind |-> "summary", errors |-> totalErrors, files |-> Len(targetFiles)]>>
    ELSE <<>>
Summary ==
    IF ~options.failExit
    THEN <<[kind |-> "summary", errors |-> totalErrors, files |-> Len(docs)]>>
    ELSE <<>>

\* index.ts:176
MutExitStatus == IF totalErrors > 0 THEN 1 ELSE 0
ExitStatus == IF hasError THEN 1 ELSE 0

\* index.ts:171-172
Disposals ==
    <<[kind |-> "dispose", cache |-> "documentRegions"],
      [kind |-> "dispose", cache |-> "scriptRegionDocuments"]>>

\* index.ts:171-176  what the finally block does, in order
MutFinallyEffects ==
    Summary \o Disposals \o <<[kind |-> "exit", code |-> ExitStatus]>>
FinallyEffects ==
    Disposals \o Summary \o <<[kind |-> "exit", code |-> ExitStatus]>>

\* index.ts:170-177  the finally block
Finally ==
    /\ pc = "finally"
    /\ caches' = [documentRegions |-> "disposed", scriptRegionDocuments |-> "disposed"]
    /\ disposeCount' = [documentRegions |-> disposeCount.documentRegions + 1,
                        scriptRegionDocuments |-> disposeCount.scriptRegionDocuments + 1]
    /\ trace' = trace \o FinallyEffects
    /\ exitCode' = ExitStatus
    /\ pc' = "exited"
    /\ UNCHANGED <<arrival, validLanguages, options, targetFiles, reads, readLog,
                   classifierLog, docs, hasDoValidation, hasError, totalErrors,
                   idx, calls, caught, failure, runs, probe>>

\* the command-line entry: a rejected check ends the process with status 1
RunnerFails ==
    /\ pc = "rejected"
    /\ exitCode' = 1
    /\ trace' = Append(trace, [kind |-> "exit", code |-> 1])
    /\ pc' = "exited"
    /\ UNCHANGED <<arrival, validLanguages, options, targetFiles, reads, readLog,
                   classifierLog, docs, caches, disposeCount, hasDoValidation,
                   hasError, totalErrors, idx, calls, caught, failure, runs,
                   probe>>

\* the programmatic API: the caller of check handles the rejection and the
\* process goes on to call check again
CallerRecovers ==
    /\ pc = "rejected"
    /\ runs < MaxRuns
    /\ pc' = "idle"
    /\ UNCHANGED <<arrival, validLanguages, options, targetFiles, reads, readLog,
                   classifierLog, docs, caches, disposeCount, hasDoValidation,
                   hasError, totalErrors, idx, calls, trace, caught, failure,
                   exitCode, runs, probe>>

Next ==
    \/ \E o \in OptionChoices : Check(o)
    \/ \E i \in 1..Len(reads) : ReadComplete(i)
    \/ \E i \in 1..Len(reads) : ReadFail(i)
    \/ TraverseReturn
    \/ EnterGetDiagnostics
    \/ ConstructThrows
    \/ \E capable \in BOOLEAN : ConstructDone(capable)
    \/ \E t \in 0..MaxDiag, s \in 0..MaxDiag : ValidateDocument(t, s)
    \/ \E producer \in {"template", "script"} : ValidateThrows(producer)
    \/ LoopDone
    \/ Finally
    \/ RunnerFails
    \/ CallerRecovers

Spec == Init /\ [][Next]_vars

\* index.ts:108-177  the steps of getDiagnostics once it is entered.  The
\* function is one async call chain: when the call it awaits returns or
\* throws, its next step runs.
OrchestratorStep ==
    \/ ConstructThrows
    \/ \E capable \in BOOLEAN : ConstructDone(capable)
    \/ \E t \in 0..MaxDiag, s \in 0..MaxDiag : ValidateDocument(t, s)
    \/ \E producer \in {"template", "script"} : ValidateThrows(producer)
    \/ LoopDone
    \/ Finally

FairSpec == Init /\ [][Next]_vars /\ WF_vars(OrchestratorStep)

-----------------------------------------------------------------------------
(* The exclusion filter as a pure function: every exclusion configuration  *)
(* and candidate list within the bounds                                    *)

ExcludeDirInputs ==
    {NoDir, DirArray(<<>>)}
    \cup {DirString(d) : d \in StrUpTo(Sigma, MaxDirLen)}
    \cup {DirArray(<<d1, d2>>) : d1 \in StrUpTo(Sigma, MaxPairLen),
                                 d2 \in StrUpTo(Sigma, MaxPairLen)}

CandidateInputs == {<<>>} \cup {<<f>> : f \in StrUpTo(Sigma, MaxPathLen)}

InitExclude ==
    /\ MainInit
    /\ probe \in [kind : {"exclude"}, excludeDir : ExcludeDirInputs,
                  files : CandidateInputs, state : {"pending"}, out : {<<>>}]

\* index.ts:45 and 64-69 applied to the drawn input
ApplyExclude ==
    /\ probe.kind = "exclude"
    /\ probe.state = "pending"
    /\ LET excludeDirs == ExcludeDirsOf(probe.excludeDir)
       IN IF ExcludeThrows(probe.files, excludeDirs)
          THEN probe' = [probe EXCEPT !.state = "threw"]
          ELSE probe' = [probe EXCEPT !.state = "done",
                                      !.out = Exclude(probe.files, excludeDirs)]
    /\ UNCHANGED MainVars

SpecExclude == InitExclude /\ [][ApplyExclude]_vars

-----------------------------------------------------------------------------
(* The classifier as a pure function: every source text within the bounds  *)

InitClassify ==
    /\ MainInit
    /\ probe \in [kind : {"classify"}, fileExt : {VUE, TS, TSX},
                  src : StrUpTo(Lexemes, MaxSrcLen), out : {"pending"}]

\* index.ts:83-88 applied to the drawn file
ApplyClassifier ==
    /\ probe.kind = "classify"
    /\ probe.out = "pending"
    /\ probe' = [probe EXCEPT !.out = IF IsEligible(probe.fileExt, probe.src)
                                      THEN "included" ELSE "excluded"]
    /\ UNCHANGED MainVars

SpecClassify == InitClassify /\ [][ApplyClassifier]_vars

-----------------------------------------------------------------------------
(* Observations used by the properties *)

IsReport(e) == e.kind = "report"
IsSummary(e) == e.kind = "summary"
IsExit(e) == e.kind = "exit"

ReportEvents == SelectSeq(trace, IsReport)
SummaryEvents == SelectSeq(trace, IsSummary)

Positions(kind) == {i \in 1..Len(trace) : trace[i].kind = kind}
DisposePositions(cache) ==
    {i \in Positions("dispose") : trace[i].cache = cache}

\* the process ended in the finally block of getDiagnostics
OrchestratorExit == pc = "exited" /\ failure = "none"

\* traverse has returned its documents
AfterTraverse ==
    \/ pc \in {"loaded", "constructing", "validating", "finally"}
    \/ OrchestratorExit

DocPaths == [i \in 1..Len(docs) |-> DocPath(docs[i])]

\* a document has yielded a diagnostic; the first such document
SomeReported == ReportEvents # <<>>
FirstReportedDoc == ReportEvents[1].doc

CallsOn(d) == {i \in 1..Len(calls) : calls[i][1] = d}

\* the elements of s at the indexes of P, from index i on, in order
RECURSIVE Pick(_, _, _)
Pick(s, i, P) ==
    IF i > Len(s) THEN <<>>
    ELSE (IF i \in P THEN <<s[i]>> ELSE <<>>) \o Pick(s, i + 1, P)

\* the producers invoked on document d, in call order
ProducersCalledOn(d) ==
    LET cs == Pick(calls, 1, CallsOn(d)) IN [k \in 1..Len(cs) |-> cs[k][2]]

\* the diagnostics reported for document d, in report order
ReportedFor(d) ==
    LET rs == Pick(trace, 1, {i \in Positions("report") : trace[i].doc = d})
    IN [k \in 1..Len(rs) |-> rs[k].diag]

TickPositions == Positions("tick")

\* the position in the trace of the tick of the d-th finished document
TickOf(d) ==
    CHOOSE i \in TickPositions : Cardinality({j \in TickPositions : j <= i}) = d

-----------------------------------------------------------------------------
(* Properties *)

\* C1: when the process exits from getDiagnostics, the exit code is 0 if and
\* only if hasError is false, that is, if and only if no document yielded a
\* diagnostic and no exception was caught; otherwise it is 1.
C1_ExitCodeZeroIffNoError ==
    OrchestratorExit =>
        /\ exitCode \in {0, 1}
        /\ exitCode = 0 <=> ~hasError
        /\ exitCode = 0 <=> (ReportEvents = <<>> /\ ~caught)

C1_Witness ==
    OrchestratorExit /\ exitCode = 0 /\ idx >= 2

\* C2: with failExit set, once a document k has yielded a diagnostic, no
\* producer is invoked on a document after k, only diagnostics of k are
\* reported, the loop is over, and the exit code is 1.
C2_FailExitStopsAtFirstError ==
    (options.failExit /\ SomeReported) =>
        /\ \A i \in 1..Len(ReportEvents) : ReportEvents[i].doc = FirstReportedDoc
        /\ \A i \in 1..Len(calls) : calls[i][1] <= FirstReportedDoc
        /\ pc \in {"finally", "exited"}
        /\ pc = "exited" => exitCode = 1

C2_Witness ==
    /\ pc = "exited" /\ options.failExit /\ SomeReported
    /\ FirstReportedDoc = 2 /\ Len(docs) >= 3 /\ exitCode = 1

\* C3 (as claimed): with failExit set, no read is issued for a file that
\* comes after the document that yields the first diagnostic.
C3_LaterFilesNeverRead ==
    (options.failExit /\ SomeReported) =>
        \A j \in (FirstReportedDoc + 1)..Len(docs) :
            DocPath(docs[j]) \notin Range(readLog)

\* C3 (amended): with failExit set, the files after the document that yields
\* the first diagnostic are never validated, but they have been read: every
\* selected file is read before getDiagnostics is entered.
C3_LaterFilesReadButNotValidated ==
    /\ AfterTraverse =>
          /\ readLog = targetFiles
          /\ \A i \in 1..Len(reads) : reads[i] = "done"
          /\ Range(DocPaths) \subseteq Range(readLog)
    /\ (options.failExit /\ SomeReported) =>
          \A j \in (FirstReportedDoc + 1)..Len(docs) : CallsOn(j) = {}

C3_Witness ==
    /\ pc = "exited" /\ options.failExit /\ SomeReported
    /\ FirstReportedDoc = 1 /\ Len(docs) >= 3
    /\ \A j \in 2..Len(docs) : DocPath(docs[j]) \in Range(readLog) /\ CallsOn(j) = {}

\* C4 (as claimed): if the explicit file list is non-empty, the documents are
\* exactly that list, whatever excludeDir is.  (Stated for the plainest case:
\* strict-only mode off, excludeDir a single directory.)
C4_ExplicitListIsDocumentSet ==
    (/\ AfterTraverse
     /\ Len(options.files) # 0
     /\ ~options.onlyTypeScript
     /\ options.excludeDir.kind = "string") =>
        DocPaths = options.files

\* C4 (amended): if the explicit file list is non-empty the directory scan is
\* bypassed, whatever srcDir and the scan extensions are: only files of the
\* list are read.  The exclusion filter (and, in strict-only mode, the
\* classifier) still applies: the documents are the files of the list, in
\* list order, that the exclusion pattern does not match (and that are
\* eligible).
C4_ExplicitListBypassesScanOnly ==
    (AfterTraverse /\ Len(options.files) # 0) =>
        /\ Range(readLog) \subseteq Range(options.files)
        /\ DocPaths =
              Restrict(options.files,
                  {f \in Range(options.files) :
                      /\ ~IsExcluded(f, ExcludeDirsOf(options.excludeDir))
                      /\ options.onlyTypeScript =>
                            IsEligible(extractTargetFileExtension(f), Source(f))})

C4_Witness ==
    /\ AfterTraverse /\ Len(options.files) = 2 /\ ~options.onlyTypeScript
    /\ Len(docs) = 1 /\ options.srcDir = SubDir

\* C5: no path that survives the exclusion filter has the resolved form of an
\* excludeDirs entry as a textual prefix.
C5_NoSurvivorHasExcludedPrefix ==
    (probe.kind = "exclude" /\ probe.state = "done") =>
        \A i \in 1..Len(probe.out) :
            \A k \in 1..Len(ExcludeDirsOf(probe.excludeDir).v) :
                ~IsPrefix(PathResolve(ExcludeDirsOf(probe.excludeDir).v[k]), probe.out[i])

\* C6: on every exit path of getDiagnostics each of the two caches is
\* disposed exactly once, before the summary line and before the exit.
C6_CachesDisposedOnceBeforeSummaryAndExit ==
    /\ disposeCount.documentRegions <= 1
    /\ disposeCount.scriptRegionDocuments <= 1
    /\ OrchestratorExit =>
          /\ disposeCount.documentRegions = 1
          /\ disposeCount.scriptRegionDocuments = 1
          /\ caches.documentRegions = "disposed"
          /\ caches.scriptRegionDocuments = "disposed"
          /\ \A c \in {"documentRegions", "scriptRegionDocuments"} :
                /\ Cardinality(DisposePositions(c)) = 1
                /\ \A i \in DisposePositions(c) :
                      \A j \in Positions("summary") \cup Positions("exit") : i < j

C6_Witness ==
    /\ OrchestratorExit /\ caught /\ ~options.failExit /\ idx >= 1
    /\ disposeCount.documentRegions = 1 /\ disposeCount.scriptRegionDocuments = 1

\* C7: on every completion path of getDiagnostics, exactly one summary line
\* with the total error count and the total document count is emitted if
\* failExit was not requested; none is ever emitted if it was.
C7_SummaryIffNotFailExit ==
    /\ options.failExit => SummaryEvents = <<>>
    /\ Len(SummaryEvents) <= 1
    /\ (OrchestratorExit /\ ~options.failExit) =>
          /\ Len(SummaryEvents) = 1
          /\ SummaryEvents[1].errors = Len(ReportEvents)
          /\ SummaryEvents[1].files = Len(docs)

C7_Witness ==
    /\ OrchestratorExit /\ ~options.failExit /\ caught
    /\ Len(ReportEvents) >= 1 /\ idx < Len(docs)
    /\ Len(SummaryEvents) = 1

-----------------------------------------------------------------------------
(* C9: the structure of a source text, to compare the classifier with *)

ScriptOpenings(src) == {i \in 1..Len(src) : src[i] = "<script"}

\* the ">" that closes the tag opened at i (0 if none)
TagClose(src, i) ==
    LET after == {j \in (i + 1)..Len(src) : src[j] = ">"}
    IN IF after = {} THEN 0 ELSE CHOOSE j \in after : \A k \in after : j <= k

ScriptTags(src) == {i \in ScriptOpenings(src) : TagClose(src, i) # 0}

\* the first script tag of a text that has one
FirstScriptTag(src) == CHOOSE i \in ScriptTags(src) : \A k \in ScriptTags(src) : i <= k

TagAttributes(src, i) == {src[k] : k \in (i + 1)..(TagClose(src, i) - 1)}

IsStrictOrExternal(src, i) ==
    TagAttributes(src, i) \cap {"lang=ts", "lang=tsx", "src=q"} # {}

\* a single script opening, closed on its own line, nothing after it there
OneLineScriptTag(src) ==
    /\ Cardinality(ScriptOpenings(src)) = 1
    /\ ScriptTags(src) # {}
    /\ LET i == FirstScriptTag(src)
           j == TagClose(src, i)
       IN /\ \A m \in i..j : src[m] # NL
          /\ j = Len(src) \/ src[j + 1] = NL

Classified == probe.kind = "classify" /\ probe.out # "pending"

\* C9 (as claimed): in strict-only mode a file that is not a component is
\* included; a component with no script tag is included; a component whose
\* script tag has lang="ts", lang="tsx" or src="..." is included; a component
\* with a plain inline script is excluded.
C9_DecisionByScriptTag ==
    Classified =>
        /\ probe.fileExt # VUE => probe.out = "included"
        /\ (probe.fileExt = VUE /\ ScriptTags(probe.src) = {}) =>
              probe.out = "included"
        /\ (probe.fileExt = VUE /\ ScriptTags(probe.src) # {}) =>
              (probe.out = "included"
                 <=> IsStrictOrExternal(probe.src, FirstScriptTag(probe.src)))

\* C9 (amended): a file that is not a component is included; a component
\* with no script tag is included; for a component whose one script opening
\* tag is written on a single line with nothing after its ">" on that line,
\* the file is included if the tag has lang="ts", lang="tsx" or src="..." and
\* excluded otherwise.  (The decision is made by single-line textual
\* matches; other layouts can be classified either way.)
C9_DecisionByOneLineScriptTag ==
    Classified =>
        /\ probe.fileExt # VUE => probe.out = "included"
        /\ (probe.fileExt = VUE /\ ScriptTags(probe.src) = {}) =>
              probe.out = "included"
        /\ (probe.fileExt = VUE /\ OneLineScriptTag(probe.src)) =>
              (probe.out = "included"
                 <=> IsStrictOrExternal(probe.src, FirstScriptTag(probe.src)))

C9_Witness ==
    /\ Classified /\ probe.fileExt = VUE /\ OneLineScriptTag(probe.src)
    /\ probe.out = "excluded" /\ Len(probe.src) = MaxSrcLen

\* C10: when onlyTypeScript is false the classifier is never consulted and
\* every path that survives selection and exclusion becomes a document handed
\* to getDiagnostics, in the same order.
C10_NoClassifierWithoutStrictOnly ==
    ~options.onlyTypeScript =>
        /\ classifierLog = <<>>
        /\ AfterTraverse => DocPaths = targetFiles

C10_Witness ==
    /\ pc = "loaded" /\ ~options.onlyTypeScript
    /\ Len(docs) >= 3 /\ FB \in Range(DocPaths)

\* C11: for each processed document the template producer is invoked first
\* and unconditionally; the script producer is invoked if and only if
\* onlyTemplate is false and scriptMode has doValidation; the reported list
\* is the template diagnostics followed by the script diagnostics, each in
\* producer order.
C11_TemplateThenScript ==
    /\ \A d \in 1..idx :
          /\ ProducersCalledOn(d) =
                (IF ~options.onlyTemplate /\ hasDoValidation
                 THEN <<"template", "script">> ELSE <<"template">>)
          /\ \E t, s \in 0..Len(ReportedFor(d)) :
                /\ ReportedFor(d) = Diagnostics("template", t) \o Diagnostics("script", s)
                /\ s # 0 => (~options.onlyTemplate /\ hasDoValidation)
    /\ \A i \in 1..Len(calls) :
          /\ calls[i][1] <= idx + 1
          /\ calls[i][2] = "script" =>
                /\ ~options.onlyTemplate /\ hasDoValidation
                /\ i > 1 /\ calls[i - 1] = <<calls[i][1], "template">>

C11_Witness ==
    /\ OrchestratorExit /\ idx >= 2
    /\ Len(ReportedFor(2)) = 2
    /\ ReportedFor(2)[1].producer = "template"
    /\ ReportedFor(2)[2].producer = "script"
    /\ ProducersCalledOn(1) = <<"template", "script">>

\* C12 (as claimed): a run with zero documents and failExit unset invokes no
\* producer, processes no document, prints "Found: 0 errors in 0 file(s)"
\* and exits with code 0.
C12_NoDocumentsExitsZero ==
    (OrchestratorExit /\ Len(docs) = 0 /\ ~options.failExit) =>
        /\ calls = <<>>
        /\ idx = 0
        /\ SummaryEvents = <<[kind |-> "summary", errors |-> 0, files |-> 0]>>
        /\ exitCode = 0

\* C12 (amended): a run with zero documents and failExit unset invokes no
\* producer, processes no document and prints "Found: 0 errors in 0
\* file(s)"; it exits with code 0 if the producers were constructed without
\* an exception, and with code 1 if their construction threw.
C12_NoDocumentsExitsZeroUnlessConstructionThrew ==
    (OrchestratorExit /\ Len(docs) = 0 /\ ~options.failExit) =>
        /\ calls = <<>>
        /\ idx = 0
        /\ Positions("report") = {} /\ Positions("tick") = {}
        /\ SummaryEvents = <<[kind |-> "summary", errors |-> 0, files |-> 0]>>
        /\ exitCode = (IF caught THEN 1 ELSE 0)

C12_Witness ==
    /\ OrchestratorExit /\ Len(docs) = 0 /\ ~options.failExit
    /\ options.files = <<>> /\ options.excludeDir = DirString(<<"d">>)
    /\ options.srcDir = SubDir
    /\ exitCode = 0

\* C13: an exception raised while constructing the producers or validating
\* a document is caught in getDiagnostics: hasError becomes true, no later
\* document is validated, check is not rejected, the caches are disposed and
\* the exit code is 1; what was counted and reported before is kept.
C13_ExceptionCaughtAtBoundary ==
    caught =>
        /\ hasError
        /\ failure = "none"
        /\ pc \in {"finally", "exited"}
        /\ Cardinality(Positions("console.error")) = 1
        /\ \A i \in 1..Len(calls) : calls[i][1] <= idx + 1
        /\ Cardinality(Positions("tick")) = idx
        /\ totalErrors = Len(ReportEvents)
        /\ \A i \in Positions("report") : trace[i].doc <= idx
        /\ pc = "exited" =>
              /\ exitCode = 1
              /\ caches.documentRegions = "disposed"
              /\ caches.scriptRegionDocuments = "disposed"
              /\ \A i \in Positions("summary") : trace[i].errors = Len(ReportEvents)

C13_Witness ==
    /\ pc = "exited" /\ caught /\ exitCode = 1
    /\ idx = 1 /\ Len(docs) >= 3 /\ totalErrors >= 1
    /\ calls[Len(calls)] = <<2, "script">>

\* C14: the reads of traverse are all started together and may be fulfilled
\* in any order, yet the documents come out in the order of the selected
\* paths; nothing of getDiagnostics (caches, producers, validation) exists
\* while a read is outstanding, and a failed read means no document is ever
\* created or validated.
C14_ReadsJoinInPathOrder ==
    /\ pc = "reading" =>
          /\ readLog = targetFiles
          /\ calls = <<>> /\ caches = NoCaches /\ docs = <<>>
          /\ \A k \in 1..Len(arrival) : reads[arrival[k]] = "done"
    /\ AfterTraverse =>
          /\ \A i \in 1..Len(reads) : reads[i] = "done"
          /\ DocPaths = Restrict(targetFiles, Range(DocPaths))
          /\ ~options.onlyTypeScript => DocPaths = targetFiles
    /\ failure = "read" =>
          /\ docs = <<>> /\ calls = <<>> /\ caches = NoCaches
          /\ Positions("report") = {} /\ Positions("tick") = {}

C14_Witness ==
    /\ pc = "loaded"
    /\ Len(arrival) >= 2 /\ arrival[1] > arrival[2]
    /\ Len(docs) >= 2
    /\ DocPaths[1] = targetFiles[1]

\* C15 (as stated): the stages run exclusion, then classification, then
\* loading: under onlyTypeScript a file is read only once the classifier has
\* seen it, and an excluded file is neither read nor classified.
C15_ClassifiedBeforeLoaded ==
    /\ options.onlyTypeScript => Range(readLog) \subseteq Range(classifierLog)
    /\ \A f \in Range(readLog) \cup Range(classifierLog) :
          ~IsExcluded(f, ExcludeDirsOf(options.excludeDir))

\* C15 (amended): the stages run exclusion, then reading, then
\* classification, then document creation: the classifier only ever sees
\* files whose text has been read, every surviving file is read whether or
\* not it is eligible, and an excluded file is neither read nor classified.
C15_ExcludedThenReadThenClassified ==
    /\ \A f \in Range(readLog) \cup Range(classifierLog) :
          ~IsExcluded(f, ExcludeDirsOf(options.excludeDir))
    /\ readLog # <<>> => readLog = targetFiles
    /\ classifierLog # <<>> =>
          /\ classifierLog = readLog
          /\ \A i \in 1..Len(reads) : reads[i] = "done"
    /\ pc = "reading" => classifierLog = <<>> /\ docs = <<>>
    /\ Range(DocPaths) \subseteq Range(readLog)
    /\ (options.onlyTypeScript /\ AfterTraverse) =>
          /\ classifierLog = targetFiles
          /\ Range(DocPaths) =
                {f \in Range(classifierLog) :
                    IsEligible(extractTargetFileExtension(f), Source(f))}

C15_Witness ==
    /\ pc = "loaded"
    /\ options.onlyTypeScript /\ options.files = <<>>
    /\ options.excludeDir = DirString(<<"d">>)
    /\ readLog = <<FA, FB, FC>>
    /\ classifierLog = <<FA, FB, FC>>
    /\ DocPaths = <<FA, FC>>

\* C16: provided every construction and validation call returns or throws,
\* a run that has entered getDiagnostics eventually reaches process.exit, and
\* the only step into that exit is the finally block, which every way out of
\* the loop (documents exhausted, early stop, exception) leads to.
C16_EveryRunExitsThroughCleanup ==
    /\ (pc \in {"constructing", "validating", "finally"}) ~> OrchestratorExit
    /\ [][ /\ (pc \in {"constructing", "validating"} /\ pc' # pc) =>
                 pc' \in {"validating", "finally"}
           /\ (pc # "exited" /\ pc' = "exited" /\ failure' = "none") =>
                 /\ pc = "finally"
                 /\ caches'.documentRegions = "disposed"
                 /\ caches'.scriptRegionDocuments = "disposed" ]_vars

C16_Witness ==
    /\ OrchestratorExit
    /\ options.failExit /\ Positions("notice") # {}
    /\ idx < Len(docs)
    /\ ~caught
    /\ caches.documentRegions = "disposed"

\* C17: the progress bar is ticked exactly once for each document whose
\* iteration completed, with or without diagnostics; the tick of a document
\* comes after all of its reports and immediately before the early-stop
\* notice, if any; at exit the ticks number the completed documents.
C17_OneTickPerProcessedDocument ==
    /\ Cardinality(TickPositions) = idx
    /\ idx <= Len(docs)
    /\ \A i \in Positions("report") :
          LET d == trace[i].doc
          IN d <= idx =>
                /\ i < TickOf(d)
                /\ d > 1 => TickOf(d - 1) < i
    /\ \A n \in Positions("notice") :
          /\ idx >= 1 /\ n = TickOf(idx) + 1
          /\ options.failExit /\ hasError
    /\ OrchestratorExit =>
          Cardinality(TickPositions) =
             Cardinality({d \in 1..Len(docs) : ProducersCalledOn(d) # <<>>})
             - (IF caught /\ Len(calls) # 0 /\ calls[Len(calls)][1] = idx + 1
                THEN 1 ELSE 0)

C17_Witness ==
    /\ OrchestratorExit
    /\ idx = 2 /\ Cardinality(TickPositions) = 2
    /\ ReportedFor(1) = <<>>
    /\ Len(ReportedFor(2)) = 2
    /\ Positions("notice") # {}

\* C18 (SpecExclude): a candidate is dropped by the exclusion filter only if
\* the resolved form of some excludeDirs entry is a textual prefix of it;
\* with an empty excludeDirs sequence nothing is dropped.
C18_DroppedOnlyIfPrefixed ==
    (probe.kind = "exclude" /\ probe.state = "done") =>
        /\ \A i \in 1..Len(probe.files) :
              probe.files[i] \notin Range(probe.out) =>
                 \E k \in 1..Len(ExcludeDirsOf(probe.excludeDir).v) :
                    IsPrefix(PathResolve(ExcludeDirsOf(probe.excludeDir).v[k]),
                             probe.files[i])
        /\ probe.excludeDir = DirArray(<<>>) => probe.out = probe.files

\* C19: in every invocation of check that scans (no explicit file list), the
\* files scanned are those of the root whose extension is in a set fixed by
\* that invocation's onlyTypeScript flag alone: vue when it is false; ts, tsx
\* and vue when it is true.  validLanguages, once widened by a strict
\* invocation, stays widened, and that does not change what a later
\* non-strict invocation scans.
C19_ScanDependsOnlyOnOwnFlag ==
    /\ [](LET root == IF options.srcDir # <<>> THEN options.srcDir
                      ELSE options.workspace
              expected == IF options.onlyTypeScript THEN {TS, TSX, VUE} ELSE {VUE}
              scanned == {f \in Range(Disk) :
                             /\ IsPrefix(root \o <<"/">>, f)
                             /\ extractTargetFileExtension(f) \in expected}
          IN (runs > 0 /\ options.files = <<>>) =>
                /\ Range(targetFiles) \subseteq scanned
                /\ failure = "pattern" => Range(targetFiles) = scanned
                /\ failure # "pattern" =>
                      Range(targetFiles) =
                         {f \in scanned :
                             ~IsExcluded(f, ExcludeDirsOf(options.excludeDir))})
    /\ [][validLanguages = <<TS, TSX, VUE>> =>
             validLanguages' = validLanguages]_vars

C19_Witness ==
    /\ runs = 2 /\ pc = "reading"
    /\ validLanguages = <<TS, TSX, VUE>>
    /\ ~options.onlyTypeScript /\ options.files = <<>>
    /\ options.excludeDir = NoDir
    /\ targetFiles = <<FA, FB, FD>>

\* C20: throughout the loop totalErrors is the number of diagnostics of the
\* documents processed so far and hasError holds exactly when it is positive;
\* from the finally block on, hasError holds exactly when totalErrors is
\* positive or an exception was caught; within getDiagnostics neither value
\* decreases or is reset.
C20_ErrorAccounting ==
    /\ [](/\ pc = "validating" =>
                /\ totalErrors = Len(ReportEvents)
                /\ \A i \in Positions("report") : trace[i].doc <= idx
                /\ hasError <=> totalErrors > 0
          /\ (pc = "finally" \/ OrchestratorExit) =>
                /\ totalErrors = Len(ReportEvents)
                /\ hasError <=> (totalErrors > 0 \/ caught))
    /\ [][(pc \in {"constructing", "validating", "finally"}) =>
             /\ totalErrors' >= totalErrors
             /\ (hasError => hasError')]_vars

C20_Witness ==
    /\ pc = "validating" /\ idx = 2
    /\ Len(ReportedFor(1)) = 2 /\ Len(ReportedFor(2)) = 1
    /\ totalErrors = 3 /\ hasError

=============================================================================
